---- MODULE Spec2Model ----
(***************************************************************************)
(* Model of the two asset scripts of reflexa-ai:                           *)
(*   public/audio/generate_voice_stop_cue.py  (generate_wav)               *)
(*   scripts/svg-to-png.py                    (module-level icon loop)     *)
(*                                                                         *)
(* Numbers.  Python floats are modelled by exact rationals: a duration is  *)
(* a pair <<num, den>>, progress is i/num_samples, the fade is             *)
(* (n-i)^2/n^2.  math.sin is modelled by a deterministic fixed-point       *)
(* function of the phase (Bhaskara's rational approximation, exact at the  *)
(* phases 0, 1/12, 1/4 of a turn), with values in units of 1/SinScale.     *)
(***************************************************************************)
EXTENDS Integers, Sequences, FiniteSets, TLC

VARIABLES
    \* ---- generate_wav ----
    pc,           \* position inside generate_wav
    args,         \* the arguments of the current call
    num_samples,  \* line 15
    wav_header,   \* line 18 (bytes)
    fmt_chunk,    \* line 19 (bytes)
    data_header,  \* line 21 (bytes)
    samples,      \* line 24: list of packed 2-byte samples
    i,            \* loop index of line 25
    wpos,         \* number of entries of samples already written (line 50)
    err,          \* exception that ended the call, "" if none
    file,         \* the output path: [exists, bytes]
    fileAtCall,   \* content of the output path when the call started
    runs,         \* number of calls made so far
    prev,         \* arguments and output of the previous completed call
    \* ---- svg-to-png.py ----
    ipc,          \* position inside the script
    cairosvg,     \* whether `import cairosvg` succeeds (environment)
    svgExists,    \* size -> whether icon-<size>.svg exists (environment)
    png,          \* size -> state of icon-<size>.png
    idx,          \* position of the for loop in sizes
    checked,      \* sizes whose svg_file was tested with os.path.exists
    requested,    \* sizes for which cairosvg.svg2png was called
    log,          \* console reports, in order
    exitCode,     \* process exit code, Running while the script runs
    \* ---- quantizer inputs (line 39-43 as a pure function) ----
    qraw, qi, qn, qout

wavVars  == <<pc, args, num_samples, wav_header, fmt_chunk, data_header,
              samples, i, wpos, err, file, fileAtCall, runs, prev>>
iconVars == <<ipc, cairosvg, svgExists, png, idx, checked, requested, log,
              exitCode>>
quantVars == <<qraw, qi, qn, qout>>
vars == <<wavVars, iconVars, quantVars>>

\* ------------------------------------------------------------------------
\* Bounds of the model
\* ------------------------------------------------------------------------
MaxSamples == 4
MaxRuns == 2
SinScale == 100

\* ------------------------------------------------------------------------
\* Program constants
\* ------------------------------------------------------------------------
FullScale == 32767
GainNum == 3
GainDen == 10
FmtChunkSize == 16
AudioFormat == 1
NumChannels == 1
BlockAlign == 2
BitsPerSample == 16
RiffOverhead == 36
DefaultSampleRate == 44100
DefaultDuration == <<1, 4>>

\* the output path: absent, or present with some bytes
NoFile == [exists |-> FALSE, bytes |-> <<>>]
Present(bytes) == [exists |-> TRUE, bytes |-> bytes]
OldContent == Present(<<1, 2, 3>>)

RIFF == <<82, 73, 70, 70>>
WAVE == <<87, 65, 86, 69>>
FMT_ == <<102, 109, 116, 32>>
DATA == <<100, 97, 116, 97>>

\* ------------------------------------------------------------------------
\* Arithmetic helpers
\* ------------------------------------------------------------------------
Abs(x) == IF x < 0 THEN -x ELSE x

\* variant: round half away from zero instead of truncating
TruncDivHalfUp(a, b) == IF 2 * (Abs(a) % b) >= b
                        THEN (IF a >= 0 THEN (a \div b) + 1 ELSE -(((-a) \div b) + 1))
                        ELSE (IF a >= 0 THEN a \div b ELSE -((-a) \div b))
\* Python int(): truncation toward zero of the rational a/b, b > 0
TruncDiv(a, b) == IF a >= 0 THEN a \div b ELSE -((-a) \div b)

\* variant: rounds up instead of truncating
NumSamplesCeil(sample_rate, duration) ==
    -((-(sample_rate * duration[1])) \div duration[2])
\* line 15: num_samples = int(sample_rate * duration)
NumSamples(sample_rate, duration) ==
    TruncDiv(sample_rate * duration[1], duration[2])

\* ------------------------------------------------------------------------
\* struct.pack, little endian
\* ------------------------------------------------------------------------
\* 'I': unsigned 32 bit, struct.error outside 0 .. 2^32-1
Pack_I_ok(v) == v >= 0 /\ (v \div 65536) < 65536
\* variant: '>I' byte order
Pack_I_BigEndian(v) == <<(v \div 16777216) % 256, (v \div 65536) % 256,
                         (v \div 256) % 256, v % 256>>
Pack_I(v) == <<v % 256, (v \div 256) % 256, (v \div 65536) % 256,
               (v \div 16777216) % 256>>
\* 'H': unsigned 16 bit
Pack_H(v) == <<v % 256, (v \div 256) % 256>>
\* 'h': signed 16 bit, struct.error outside -32768 .. 32767
Pack_h_ok(v) == v >= -32768 /\ v <= 32767
Pack_h(v) == LET u == (v + 65536) % 65536 IN <<u % 256, (u \div 256) % 256>>

\* ------------------------------------------------------------------------
\* The per-sample computation, lines 26-42
\* ------------------------------------------------------------------------
\* phase freq * t in turns, as the fraction PhaseNum / PhaseDen, where
\* t = i / sample_rate, progress = i / n,
\* freq = start_freq + (end_freq - start_freq) * progress
PhaseNum(a, n, k) == (a.start_freq * n + (a.end_freq - a.start_freq) * k) * k
PhaseDen(a, n) == n * a.sample_rate

\* math.sin(2 * pi * p / q) in units of 1/SinScale, q > 0
SinHalf(p, q) == LET num == 32 * p * (q - 2 * p)
                     den == 5 * q * q - 8 * p * (q - 2 * p)
                 IN  (2 * SinScale * num + den) \div (2 * den)
Sin(p, q) == LET r == p % q
             IN  IF 2 * r <= q THEN SinHalf(r, q)
                 ELSE -SinHalf(2 * r - q, 2 * q)

\* lines 36-42: fade_out = (1 - progress)^2, amplitude = sample * fade_out * 0.3,
\* sample_int = int(amplitude * 32767); raw is the sine in units of 1/SinScale.
\* The scaled amplitude is the rational ScaledNum / ScaledDen.
ScaledNum(raw, k, n) == raw * (n - k) * (n - k) * GainNum * FullScale
ScaledDen(n) == SinScale * n * n * GainDen
\* variants: gain 3.0 instead of 0.3; round instead of int
SampleIntLoud(raw, k, n) == TruncDiv(10 * ScaledNum(raw, k, n), ScaledDen(n))
SampleIntRounded(raw, k, n) == TruncDivHalfUp(ScaledNum(raw, k, n), ScaledDen(n))
SampleInt(raw, k, n) == TruncDiv(ScaledNum(raw, k, n), ScaledDen(n))

\* ------------------------------------------------------------------------
\* Inputs of the model
\* ------------------------------------------------------------------------
Durations == {<<-1, 8>>, <<0, 1>>, <<1, 4>>, <<1, 2>>, <<3, 8>>}
SampleRates == {-8, 0, 4, 8}
StartFreqs == {2, 3}
EndFreqs == {1}
ArgSpace == [duration : Durations, start_freq : StartFreqs,
             end_freq : EndFreqs, sample_rate : SampleRates]
NoArgs == [duration |-> <<0, 1>>, start_freq |-> 0, end_freq |-> 0,
           sample_rate |-> 0]

\* ------------------------------------------------------------------------
\* generate_wav
\* ------------------------------------------------------------------------
WavInit ==
    /\ pc = "idle"
    /\ args = NoArgs
    /\ num_samples = 0
    /\ wav_header = <<>>
    /\ fmt_chunk = <<>>
    /\ data_header = <<>>
    /\ samples = <<>>
    /\ i = 0
    /\ wpos = 0
    /\ err = ""
    /\ file \in {NoFile, OldContent}
    /\ fileAtCall = file
    /\ runs = 0
    /\ prev = [valid |-> FALSE, args |-> NoArgs, output |-> NoFile]

Raise(e) ==
    /\ pc' = "raised"
    /\ err' = e

\* the call and line 15
Invoke ==
    /\ UNCHANGED <<iconVars, quantVars>>
    /\ pc \in {"idle", "done", "raised"}
    /\ runs < MaxRuns
    /\ \E a \in ArgSpace :
         /\ Abs(NumSamples(a.sample_rate, a.duration)) <= MaxSamples
         /\ args' = a
         /\ num_samples' = NumSamples(a.sample_rate, a.duration)
    /\ pc' = "wav_header"
    /\ wav_header' = <<>>
    /\ fmt_chunk' = <<>>
    /\ data_header' = <<>>
    /\ samples' = <<>>
    /\ i' = 0
    /\ wpos' = 0
    /\ err' = ""
    /\ fileAtCall' = file
    /\ runs' = runs + 1
    /\ prev' = IF pc = "done" THEN [valid |-> TRUE, args |-> args, output |-> file]
                ELSE prev
    /\ UNCHANGED file

\* variant: the file is opened before the headers are packed
PackWavHeaderOpenFirst ==
    /\ UNCHANGED <<iconVars, quantVars>>
    /\ pc = "wav_header"
    /\ file' = Present(<<>>)
    /\ IF Pack_I_ok(RiffOverhead + num_samples * 2)
       THEN /\ wav_header' = RIFF \o Pack_I(RiffOverhead + num_samples * 2) \o WAVE
            /\ pc' = "fmt_chunk"
            /\ UNCHANGED err
       ELSE /\ Raise("struct.error")
            /\ UNCHANGED wav_header
    /\ UNCHANGED <<args, num_samples, fmt_chunk, data_header, samples, i, wpos,
                   fileAtCall, runs, prev>>
\* line 18
PackWavHeader ==
    /\ UNCHANGED <<iconVars, quantVars>>
    /\ pc = "wav_header"
    /\ IF Pack_I_ok(RiffOverhead + num_samples * 2)
       THEN /\ wav_header' = RIFF \o Pack_I(RiffOverhead + num_samples * 2) \o WAVE
            /\ pc' = "fmt_chunk"
            /\ UNCHANGED err
       ELSE /\ Raise("struct.error")
            /\ UNCHANGED wav_header
    /\ UNCHANGED <<args, num_samples, fmt_chunk, data_header, samples, i, wpos,
                   file, fileAtCall, runs, prev>>

\* lines 19-20
PackFmtChunk ==
    /\ UNCHANGED <<iconVars, quantVars>>
    /\ pc = "fmt_chunk"
    /\ IF Pack_I_ok(args.sample_rate) /\ Pack_I_ok(args.sample_rate * 2)
       THEN /\ fmt_chunk' = FMT_ \o Pack_I(FmtChunkSize) \o Pack_H(AudioFormat)
                               \o Pack_H(NumChannels) \o Pack_I(args.sample_rate)
                               \o Pack_I(args.sample_rate * 2)
                               \o Pack_H(BlockAlign) \o Pack_H(BitsPerSample)
            /\ pc' = "data_header"
            /\ UNCHANGED err
       ELSE /\ Raise("struct.error")
            /\ UNCHANGED fmt_chunk
    /\ UNCHANGED <<args, num_samples, wav_header, data_header, samples, i, wpos,
                   file, fileAtCall, runs, prev>>

\* line 21
PackDataHeader ==
    /\ UNCHANGED <<iconVars, quantVars>>
    /\ pc = "data_header"
    /\ IF Pack_I_ok(num_samples * 2)
       THEN /\ data_header' = DATA \o Pack_I(num_samples * 2)
            /\ pc' = "loop"
            /\ UNCHANGED err
       ELSE /\ Raise("struct.error")
            /\ UNCHANGED data_header
    /\ UNCHANGED <<args, num_samples, wav_header, fmt_chunk, samples, i, wpos,
                   file, fileAtCall, runs, prev>>

\* lines 25-43, one iteration
GenSample ==
    /\ UNCHANGED <<iconVars, quantVars>>
    /\ pc = "loop"
    /\ i < num_samples
    /\ LET sample == Sin(PhaseNum(args, num_samples, i), PhaseDen(args, num_samples))
           sample_int == SampleInt(sample, i, num_samples)
       IN  IF Pack_h_ok(sample_int)
           THEN /\ samples' = Append(samples, Pack_h(sample_int))
                /\ i' = i + 1
                /\ UNCHANGED <<pc, err>>
           ELSE /\ Raise("struct.error")
                /\ UNCHANGED <<samples, i>>
    /\ UNCHANGED <<args, num_samples, wav_header, fmt_chunk, data_header, wpos,
                   file, fileAtCall, runs, prev>>

\* variant: mode 'ab' instead of 'wb'
OpenFileAppend ==
    /\ UNCHANGED <<iconVars, quantVars>>
    /\ pc = "loop"
    /\ i >= num_samples
    /\ file' = Present(file.bytes)
    /\ pc' = "write_wav_header"
    /\ UNCHANGED <<args, num_samples, wav_header, fmt_chunk, data_header, samples,
                   i, wpos, err, fileAtCall, runs, prev>>
\* line 46: open(filename, 'wb') creates or truncates the file
OpenFile ==
    /\ UNCHANGED <<iconVars, quantVars>>
    /\ pc = "loop"
    /\ i >= num_samples
    /\ file' = Present(<<>>)
    /\ pc' = "write_wav_header"
    /\ UNCHANGED <<args, num_samples, wav_header, fmt_chunk, data_header, samples,
                   i, wpos, err, fileAtCall, runs, prev>>

\* line 46 when the path is not writable: OSError, nothing is touched
OpenFileFails ==
    /\ UNCHANGED <<iconVars, quantVars>>
    /\ pc = "loop"
    /\ i >= num_samples
    /\ Raise("OSError")
    /\ UNCHANGED <<args, num_samples, wav_header, fmt_chunk, data_header, samples,
                   i, wpos, file, fileAtCall, runs, prev>>

Write(bytes, next) ==
    /\ file' = Present(file.bytes \o bytes)
    /\ pc' = next
    /\ UNCHANGED <<args, num_samples, wav_header, fmt_chunk, data_header, samples,
                   i, err, fileAtCall, runs, prev>>

\* line 47
WriteWavHeader == pc = "write_wav_header" /\ Write(wav_header, "write_fmt_chunk")
                  /\ UNCHANGED <<wpos, iconVars, quantVars>>
\* line 48
WriteFmtChunk == pc = "write_fmt_chunk" /\ Write(fmt_chunk, "write_data_header")
                 /\ UNCHANGED <<wpos, iconVars, quantVars>>
\* line 49
WriteDataHeader == pc = "write_data_header" /\ Write(data_header, "write_samples")
                   /\ UNCHANGED <<wpos, iconVars, quantVars>>
\* lines 50-51, one iteration
WriteSample ==
    /\ UNCHANGED <<iconVars, quantVars>>
    /\ pc = "write_samples"
    /\ wpos < Len(samples)
    /\ Write(samples[wpos + 1], "write_samples")
    /\ wpos' = wpos + 1
\* end of the with block and lines 53-57
CloseFile ==
    /\ UNCHANGED <<iconVars, quantVars>>
    /\ pc = "write_samples"
    /\ wpos >= Len(samples)
    /\ pc' = "done"
    /\ UNCHANGED <<args, num_samples, wav_header, fmt_chunk, data_header, samples,
                   i, wpos, err, file, fileAtCall, runs, prev>>

WavNext ==
    \/ Invoke
    \/ PackWavHeader
    \/ PackFmtChunk
    \/ PackDataHeader
    \/ GenSample
    \/ OpenFile
    \/ OpenFileFails
    \/ WriteWavHeader
    \/ WriteFmtChunk
    \/ WriteDataHeader
    \/ WriteSample
    \/ CloseFile

WavIdle ==
    /\ pc = "off"
    /\ args = NoArgs
    /\ num_samples = 0
    /\ wav_header = <<>>
    /\ fmt_chunk = <<>>
    /\ data_header = <<>>
    /\ samples = <<>>
    /\ i = 0
    /\ wpos = 0
    /\ err = ""
    /\ file = NoFile
    /\ fileAtCall = NoFile
    /\ runs = 0
    /\ prev = [valid |-> FALSE, args |-> NoArgs, output |-> NoFile]

\* ------------------------------------------------------------------------
\* svg-to-png.py
\* ------------------------------------------------------------------------
Running == -1
\* line 19
sizes == <<16, 32, 48, 128>>
SizeSet == {sizes[k] : k \in 1..Len(sizes)}

IconInit ==
    /\ ipc = "import"
    /\ cairosvg \in {"installed", "ImportError"}
    /\ svgExists \in [SizeSet -> BOOLEAN]
    /\ png \in {[s \in SizeSet |-> "absent"], [s \in SizeSet |-> "stale"]}
    /\ idx = 1
    /\ checked = {}
    /\ requested = {}
    /\ log = <<>>
    /\ exitCode = Running

IconIdle ==
    /\ ipc = "off"
    /\ cairosvg = "installed"
    /\ svgExists = [s \in SizeSet |-> TRUE]
    /\ png = [s \in SizeSet |-> "absent"]
    /\ idx = 1
    /\ checked = {}
    /\ requested = {}
    /\ log = <<>>
    /\ exitCode = Running

\* variant: the except branch does not exit
ImportCairosvgNoExit ==
    /\ UNCHANGED <<wavVars, quantVars>>
    /\ ipc = "import"
    /\ IF cairosvg = "installed"
       THEN /\ ipc' = "for"
            /\ UNCHANGED <<log, exitCode>>
       ELSE /\ log' = Append(log, <<"not installed", 0>>)
            /\ ipc' = "for"
            /\ UNCHANGED exitCode
    /\ UNCHANGED <<cairosvg, svgExists, png, idx, checked, requested>>
\* lines 11-17
ImportCairosvg ==
    /\ UNCHANGED <<wavVars, quantVars>>
    /\ ipc = "import"
    /\ IF cairosvg = "installed"
       THEN /\ ipc' = "for"
            /\ UNCHANGED <<log, exitCode>>
       ELSE /\ log' = Append(log, <<"not installed", 0>>)
            /\ exitCode' = 1
            /\ ipc' = "exited"
    /\ UNCHANGED <<cairosvg, svgExists, png, idx, checked, requested>>

\* variant: break instead of continue
CheckExistsBreak ==
    /\ UNCHANGED <<wavVars, quantVars>>
    /\ ipc = "for"
    /\ idx <= Len(sizes)
    /\ checked' = checked \cup {sizes[idx]}
    /\ IF ~svgExists[sizes[idx]]
       THEN /\ log' = Append(log, <<"not found", sizes[idx]>>)
            /\ idx' = Len(sizes) + 1
            /\ UNCHANGED ipc
       ELSE /\ ipc' = "svg2png"
            /\ UNCHANGED <<log, idx>>
    /\ UNCHANGED <<cairosvg, svgExists, png, requested, exitCode>>
\* lines 22-28: loop head, the existence test and its `continue`
CheckExists ==
    /\ UNCHANGED <<wavVars, quantVars>>
    /\ ipc = "for"
    /\ idx <= Len(sizes)
    /\ checked' = checked \cup {sizes[idx]}
    /\ IF ~svgExists[sizes[idx]]
       THEN /\ log' = Append(log, <<"not found", sizes[idx]>>)
            /\ idx' = idx + 1
            /\ UNCHANGED ipc
       ELSE /\ ipc' = "svg2png"
            /\ UNCHANGED <<log, idx>>
    /\ UNCHANGED <<cairosvg, svgExists, png, requested, exitCode>>

\* lines 30-37: the rasterize call returns
Svg2PngOk ==
    /\ UNCHANGED <<wavVars, quantVars>>
    /\ ipc = "svg2png"
    /\ requested' = requested \cup {sizes[idx]}
    /\ png' = [png EXCEPT ![sizes[idx]] = "generated"]
    /\ log' = Append(log, <<"generated", sizes[idx]>>)
    /\ idx' = idx + 1
    /\ ipc' = "for"
    /\ UNCHANGED <<cairosvg, svgExists, checked, exitCode>>

\* lines 30-39: the rasterize call raises an Exception; the library may or
\* may not have left a partial output file behind
\* variant: no except clause, the exception ends the script
Svg2PngRaisesUncaught ==
    /\ UNCHANGED <<wavVars, quantVars>>
    /\ ipc = "svg2png"
    /\ requested' = requested \cup {sizes[idx]}
    /\ \E left \in {png[sizes[idx]], "partial"} :
         png' = [png EXCEPT ![sizes[idx]] = left]
    /\ exitCode' = 1
    /\ ipc' = "exited"
    /\ UNCHANGED <<cairosvg, svgExists, checked, log, idx>>
Svg2PngRaises ==
    /\ UNCHANGED <<wavVars, quantVars>>
    /\ ipc = "svg2png"
    /\ requested' = requested \cup {sizes[idx]}
    /\ \E left \in {png[sizes[idx]], "partial"} :
         png' = [png EXCEPT ![sizes[idx]] = left]
    /\ log' = Append(log, <<"error", sizes[idx]>>)
    /\ idx' = idx + 1
    /\ ipc' = "for"
    /\ UNCHANGED <<cairosvg, svgExists, checked, exitCode>>

\* line 41 and the end of the script
Complete ==
    /\ UNCHANGED <<wavVars, quantVars>>
    /\ ipc = "for"
    /\ idx > Len(sizes)
    /\ log' = Append(log, <<"complete", 0>>)
    /\ exitCode' = 0
    /\ ipc' = "exited"
    /\ UNCHANGED <<cairosvg, svgExists, png, idx, checked, requested>>

IconNext ==
    \/ ImportCairosvg
    \/ CheckExists
    \/ Svg2PngOk
    \/ Svg2PngRaises
    \/ Complete

\* ------------------------------------------------------------------------
\* The quantizer of lines 36-43 on its own: every raw sine value in [-1, 1]
\* (in units of 1/SinScale) at every index of every loop length
\* ------------------------------------------------------------------------
QuantInit ==
    /\ qraw \in (-SinScale)..SinScale
    /\ qn \in 1..MaxSamples
    /\ qi \in 0..(qn - 1)
    /\ qout = <<>>

QuantIdle ==
    /\ qraw = 0
    /\ qn = 1
    /\ qi = 0
    /\ qout = <<>>

\* lines 36-43 for one sample: the integer and what struct.pack('<h') does
Quantize ==
    /\ UNCHANGED <<wavVars, iconVars>>
    /\ qout = <<>>
    /\ LET sample_int == SampleInt(qraw, qi, qn)
       IN  qout' = IF Pack_h_ok(sample_int)
                   THEN <<sample_int, "packed", Pack_h(sample_int)>>
                   ELSE <<sample_int, "struct.error", <<>> >>
    /\ UNCHANGED <<qraw, qi, qn>>

\* ------------------------------------------------------------------------
\* Specifications
\* ------------------------------------------------------------------------
Init == WavInit /\ IconIdle /\ QuantIdle
Next == WavNext
Spec == Init /\ [][Next]_vars

InitIcons == WavIdle /\ IconInit /\ QuantIdle
NextIcons == IconNext
SpecIcons == InitIcons /\ [][NextIcons]_vars

InitQuant == WavIdle /\ IconIdle /\ QuantInit
NextQuant == Quantize
SpecQuant == InitQuant /\ [][NextQuant]_vars

\* ------------------------------------------------------------------------
\* Readers used by the properties
\* ------------------------------------------------------------------------
\* little-endian fields of a byte sequence, off counted from 0
U16At(b, off) == b[off + 1] + 256 * b[off + 2]
U32At(b, off) == b[off + 1] + 256 * b[off + 2] + 65536 * b[off + 3]
                 + 16777216 * b[off + 4]
Unpack_h(b) == LET u == b[1] + 256 * b[2]
               IN  IF u >= 32768 THEN u - 65536 ELSE u
LogSet == {log[k] : k \in 1..Len(log)}
Missing == {s \in SizeSet : ~svgExists[s]}
InCall == pc \notin {"idle", "off"}
ValidTone == InCall /\ args.duration[1] > 0 /\ args.sample_rate > 0
InvalidTone == InCall /\ (args.duration[1] <= 0 \/ args.sample_rate <= 0)
\* exact scaled amplitude of the k-th generated sample (k from 1)
SampleNum(k) == ScaledNum(Sin(PhaseNum(args, num_samples, k - 1),
                              PhaseDen(args, num_samples)), k - 1, num_samples)
SampleDen == ScaledDen(num_samples)

\* ------------------------------------------------------------------------
\* Properties
\* ------------------------------------------------------------------------

\* C1: a call with duration <= 0 or sample_rate <= 0 never gets as far as
\* opening or writing the output file and never completes: the output path
\* keeps the content it had when the call started.
C1_InvalidToneRejected ==
    InvalidTone => /\ pc \in {"wav_header", "fmt_chunk", "data_header", "loop", "raised"}
                   /\ file = fileAtCall

\* C2: when cairosvg is installed and the script has ended, not-found was
\* reported for exactly the sizes whose svg is missing, svg2png was requested
\* for exactly the other sizes, and the exit code is 0.
C2_MissingSourceSkipped ==
    (ipc = "exited" /\ cairosvg = "installed") =>
        /\ {s \in SizeSet : <<"not found", s>> \in LogSet} = Missing
        /\ requested = SizeSet \ Missing
        /\ exitCode = 0
C2_Witness ==
    /\ ipc = "exited"
    /\ Missing = {48}
    /\ requested = {16, 32, 128}
    /\ exitCode = 0

\* C3: when cairosvg cannot be imported, no existence test and no svg2png
\* request is ever made, the exit code is never 0, and it is 1 once the
\* script has ended.
C3_FailFastImport ==
    (cairosvg = "ImportError") =>
        /\ checked = {}
        /\ requested = {}
        /\ exitCode \in {Running, 1}
        /\ (ipc # "import" => (ipc = "exited" /\ exitCode = 1))
C3_Witness ==
    /\ cairosvg = "ImportError"
    /\ ipc = "exited"
    /\ exitCode = 1

\* C4: a completed call leaves a file of 44 + 2n bytes: RIFF header with size
\* 36 + 2n, fmt chunk (16, 1, 1, sample_rate, 2*sample_rate, 2, 16), data
\* header with size 2n, then the n packed samples in index order; n is the
\* frame count read back, and floor(sample_rate * duration) for a valid tone.
\* The defaults give a data size of 22050 and a file of 22094 bytes.
C4_WavLayout ==
    /\ (pc = "done") =>
        LET b == file.bytes
            n == num_samples
        IN  /\ file.exists
            /\ Len(b) = 44 + 2 * n
            /\ SubSeq(b, 1, 4) = RIFF
            /\ U32At(b, 4) = 36 + 2 * n
            /\ SubSeq(b, 9, 12) = WAVE
            /\ SubSeq(b, 13, 16) = FMT_
            /\ U32At(b, 16) = 16
            /\ U16At(b, 20) = 1
            /\ U16At(b, 22) = 1
            /\ U32At(b, 24) = args.sample_rate
            /\ U32At(b, 28) = 2 * args.sample_rate
            /\ U16At(b, 32) = 2
            /\ U16At(b, 34) = 16
            /\ SubSeq(b, 37, 40) = DATA
            /\ U32At(b, 40) = 2 * n
            /\ \A k \in 1..n : SubSeq(b, 43 + 2 * k, 44 + 2 * k) = samples[k]
            /\ U32At(b, 40) \div U16At(b, 32) = n
            /\ ValidTone =>
                 /\ n * args.duration[2] <= args.sample_rate * args.duration[1]
                 /\ args.sample_rate * args.duration[1] < (n + 1) * args.duration[2]
    /\ 2 * NumSamples(DefaultSampleRate, DefaultDuration) = 22050
    /\ 44 + 2 * NumSamples(DefaultSampleRate, DefaultDuration) = 22094
C4_Witness ==
    /\ pc = "done"
    /\ ValidTone
    /\ num_samples >= 3
    /\ Len(file.bytes) = 44 + 2 * num_samples
    /\ \E k \in 1..num_samples : samples[k] # <<0, 0>>

\* C5: for every raw sine value in [-1, 1], every loop length n and every
\* index i in [0, n), the integer handed to struct.pack('<h') lies in
\* -32768 .. 32767 and the pack succeeds.
C5_RangeSafety ==
    (qout # <<>>) =>
        /\ qout[1] >= -32768
        /\ qout[1] <= 32767
        /\ qout[2] = "packed"
        /\ Unpack_h(qout[3]) = qout[1]
C5_Witness ==
    /\ qout # <<>>
    /\ qraw = -SinScale
    /\ qi = 0
    /\ qout[1] = -9830

\* C6 as stated: every stored sample is the integer nearest to the scaled
\* amplitude amplitude * 32767.
C6_NearestInteger ==
    \A k \in 1..Len(samples) :
        2 * Abs(Unpack_h(samples[k]) * SampleDen - SampleNum(k)) <= SampleDen
\* C6 amended: every stored sample is the scaled amplitude truncated toward
\* zero: same sign, and |stored| <= |scaled| < |stored| + 1.
C6_TruncatedTowardZero ==
    \A k \in 1..Len(samples) :
        LET v == Unpack_h(samples[k])
        IN  /\ (v > 0 => SampleNum(k) > 0)
            /\ (v < 0 => SampleNum(k) < 0)
            /\ Abs(v) * SampleDen <= Abs(SampleNum(k))
            /\ Abs(SampleNum(k)) < (Abs(v) + 1) * SampleDen
C6_Witness ==
    /\ pc = "done"
    /\ \E k \in 1..Len(samples) :
         /\ 2 * (Abs(SampleNum(k)) % SampleDen) >= SampleDen
         /\ Unpack_h(samples[k]) # 0

\* C7: for positive sample_rate and duration, num_samples is
\* floor(sample_rate * duration), and exactly that many samples are generated
\* and written; the defaults give 11025.
C7_DurationAccuracy ==
    /\ ValidTone =>
        /\ num_samples * args.duration[2] <= args.sample_rate * args.duration[1]
        /\ args.sample_rate * args.duration[1] < (num_samples + 1) * args.duration[2]
        /\ Len(samples) <= num_samples
        /\ (pc \in {"write_wav_header", "write_fmt_chunk", "write_data_header",
                    "write_samples", "done"} => Len(samples) = num_samples)
        /\ (pc = "done" => /\ wpos = num_samples
                           /\ Len(file.bytes) = 44 + 2 * num_samples)
    /\ NumSamples(DefaultSampleRate, DefaultDuration) = 11025
C7_Witness ==
    /\ pc = "done"
    /\ ValidTone
    /\ (args.sample_rate * args.duration[1]) % args.duration[2] # 0
    /\ wpos = num_samples
    /\ num_samples > 0

\* C8: with cairosvg installed the exit code is never non-zero, whatever
\* svg2png calls fail; at the end every size was visited, every requested
\* size is reported as generated or as an error, and every png reported as
\* generated is still in place.
C8_RenderFailureRecovered ==
    (cairosvg = "installed") =>
        /\ exitCode \in {Running, 0}
        /\ \A s \in SizeSet : <<"generated", s>> \in LogSet => png[s] = "generated"
        /\ \A s \in requested :
             (s # sizes[IF idx <= Len(sizes) THEN idx ELSE 1] \/ ipc # "svg2png") =>
                (<<"generated", s>> \in LogSet) # (<<"error", s>> \in LogSet)
        /\ (ipc = "exited" => /\ checked = SizeSet
                              /\ exitCode = 0)
C8_Witness ==
    /\ ipc = "exited"
    /\ exitCode = 0
    /\ <<"generated", 16>> \in LogSet
    /\ <<"error", 32>> \in LogSet
    /\ <<"generated", 48>> \in LogSet
    /\ <<"error", 128>> \in LogSet
    /\ png[16] = "generated"

\* C9: a completed call made with the same arguments as the previous
\* completed call leaves the same file content, whatever the path held
\* before either call.
C9_Deterministic ==
    (pc = "done" /\ prev.valid /\ prev.args = args) => file = prev.output
C9_Witness ==
    /\ pc = "done"
    /\ prev.valid
    /\ prev.args = args
    /\ num_samples > 0
    /\ fileAtCall = prev.output

\* C10: the output path is untouched while headers and samples are packed and
\* when packing raises struct.error; the file is opened only once the three
\* headers and all num_samples samples are packed.
C10_NoPartialOutput ==
    /\ (pc \in {"wav_header", "fmt_chunk", "data_header", "loop"}) => file = fileAtCall
    /\ (pc = "raised" /\ err = "struct.error") => file = fileAtCall
    /\ (InCall /\ file # fileAtCall) =>
          /\ Len(wav_header) = 12
          /\ Len(fmt_chunk) = 24
          /\ Len(data_header) = 8
          /\ Len(samples) = num_samples
C10_Witness ==
    /\ pc = "raised"
    /\ err = "struct.error"
    /\ num_samples < 0
    /\ fileAtCall = OldContent
    /\ file = OldContent

====
